---- MODULE Spec2Model ----
(***************************************************************************)
(* Re.DicSearcher: the entry store (DatabaseManager) of v6 and of v5, the  *)
(* v5 schema migration, and the SQLite file both work on.                  *)
(*                                                                         *)
(* The SQLite file is modelled by its committed content (disk) and by the  *)
(* content the program's connection sees (view): the two differ exactly    *)
(* while the connection holds an uncommitted transaction.  Python's        *)
(* sqlite3 module opens a transaction implicitly before INSERT, UPDATE and *)
(* DELETE only; CREATE TABLE and ALTER TABLE outside a transaction are     *)
(* committed as they run; DROP TABLE inside a transaction is part of it.   *)
(***************************************************************************)
EXTENDS Integers, Sequences, FiniteSets, TLC

VARIABLES
    disk,    \* committed content of the database file: its two tables
    view,    \* content seen through the program's connection
    pc,      \* position of the program: "closed", "open", or a migration step
    last,    \* the last DatabaseManager call: its name, its outcome, fault injected
    pre,     \* v5: the committed content when the last Open started
    failed,  \* v5: the migration step that raised during the last Open
    fault,   \* v5: TRUE when that step raised because of an injected fault
    ui,      \* v6 window: search box, search mode, visible list, selection, log line
    fn,      \* the last call of a function of the window: name, arguments, result
    settings,\* v5: the settings table of the database file
    sys,     \* v6: the mounted path, SystemConfig's last_db_path, the file not mounted
    origin   \* v5: the committed content before the first Open of a run of crashes

vars == <<disk, view, pc, last, pre, failed, fault, ui, fn, settings, sys, origin>>

(***************************************************************************)
(* Bounds of the model.                                                    *)
(***************************************************************************)
MaxId == 2       \* largest id (AUTOINCREMENT value) and sort_order handed out

Terms == {"a", "b"}
PosSet == {"N", "V"}
P1 == [pronunciation |-> "p1", meaning |-> "m1", example |-> "e1"]
P2 == [pronunciation |-> "p2", meaning |-> "m2", example |-> "e2"]
Payloads == {P1, P2}

\* The candidate dictionaries handed to upsert_word.
Candidates ==
    { [term |-> t, pos |-> p, pronunciation |-> y.pronunciation,
       meaning |-> y.meaning, example |-> y.example] :
      t \in Terms, p \in PosSet, y \in Payloads }

(***************************************************************************)
(* Tables.  key is the table's uniqueness constraint: "none" when the      *)
(* table does not exist, "term" for the v2-v4 definition (term TEXT        *)
(* UNIQUE), "term_pos" for UNIQUE(term, pos).  seq is the table's          *)
(* sqlite_sequence value (id INTEGER PRIMARY KEY AUTOINCREMENT).           *)
(***************************************************************************)
NoTable == [key |-> "none", rows |-> {}, seq |-> 0]

SetMax(S) == CHOOSE x \in S : \A y \in S : y <= x

MkRow(id, data, order) ==
    [id |-> id, term |-> data.term, pronunciation |-> data.pronunciation,
     pos |-> data.pos, meaning |-> data.meaning, example |-> data.example,
     sort_order |-> order]

\* CREATE TABLE IF NOT EXISTS dictionary (... UNIQUE(term, pos))
CreateTableIfNotExists(t) ==
    IF t.key = "none" THEN [key |-> "term_pos", rows |-> {}, seq |-> 0] ELSE t

\* SELECT id FROM dictionary WHERE term = ? AND pos = ?
SelectByKey(t, term, pos) == {r \in t.rows : r.term = term /\ r.pos = pos}

\* SELECT MAX(sort_order) FROM dictionary; new_order = 1 if None else max + 1
NewOrder(t) ==
    IF t.rows = {} THEN 1 ELSE SetMax({r.sort_order : r \in t.rows}) + 1

\* The id of the next inserted row were id a plain INTEGER PRIMARY KEY: one
\* more than the largest id stored.
NextId_MaxRow(t) == SetMax({0} \cup {r.id : r \in t.rows}) + 1

\* The id AUTOINCREMENT gives the next inserted row.
NextId(t) == SetMax({t.seq} \cup {r.id : r \in t.rows}) + 1

\* Whether inserting (term, pos) breaks the table's uniqueness constraint.
UniqueViolation(t, term, pos) ==
    \/ t.key = "term" /\ \E r \in t.rows : r.term = term
    \/ t.key = "term_pos" /\ \E r \in t.rows : r.term = term /\ r.pos = pos

\* INSERT INTO dictionary (term, ..., sort_order) VALUES (...)
InsertRow(t, data, order) ==
    [t EXCEPT !.rows = @ \cup {MkRow(NextId(t), data, order)},
              !.seq = NextId(t)]

\* The UPDATE of v3's upsert_word kept by mistake: SET ..., pos=? WHERE term=?
UpdateFields_ByTerm(t, data) ==
    [t EXCEPT !.rows =
        { IF r.term = data.term
            THEN [r EXCEPT !.pronunciation = data.pronunciation,
                           !.pos = data.pos,
                           !.meaning = data.meaning,
                           !.example = data.example]
            ELSE r : r \in @ }]

\* An UPDATE that leaves example out of its SET list.
UpdateFields_NoExample(t, data) ==
    [t EXCEPT !.rows =
        { IF r.term = data.term /\ r.pos = data.pos
            THEN [r EXCEPT !.pronunciation = data.pronunciation,
                           !.meaning = data.meaning]
            ELSE r : r \in @ }]

\* UPDATE dictionary SET pronunciation=?, meaning=?, example=? WHERE term=? AND pos=?
UpdateFields(t, data) ==
    [t EXCEPT !.rows =
        { IF r.term = data.term /\ r.pos = data.pos
            THEN [r EXCEPT !.pronunciation = data.pronunciation,
                           !.meaning = data.meaning,
                           !.example = data.example]
            ELSE r : r \in @ }]

\* The DELETE of v3's delete_word kept by mistake: WHERE term = ?
DeleteByKey_ByTerm(t, term, pos) ==
    [t EXCEPT !.rows = {r \in @ : r.term # term}]

\* DELETE FROM dictionary WHERE term = ? AND pos = ?
DeleteByKey(t, term, pos) ==
    [t EXCEPT !.rows = {r \in @ : ~(r.term = term /\ r.pos = pos)}]

\* The UPDATE without its WHERE clause: UPDATE dictionary SET sort_order = ?
UpdateOrderById_NoWhere(t, order, id) ==
    [t EXCEPT !.rows = {[r EXCEPT !.sort_order = order] : r \in @}]

\* UPDATE dictionary SET sort_order = ? WHERE id = ?
UpdateOrderById(t, order, id) ==
    [t EXCEPT !.rows =
        {IF r.id = id THEN [r EXCEPT !.sort_order = order] ELSE r : r \in @}]

(***************************************************************************)
(* get_all_words: SELECT * FROM dictionary ORDER BY sort_order ASC.  The   *)
(* statement scans the table in rowid (id) order and sorts records that    *)
(* begin with sort_order, rowid; SQLite therefore returns rows of equal    *)
(* sort_order in id order.  The operator gives the set of the results the  *)
(* statement may return.                                                   *)
(***************************************************************************)
SeqsOf(S) ==
    {s \in [1..Cardinality(S) -> S] : \A i, j \in DOMAIN s : i # j => s[i] # s[j]}

\* The statement without its ORDER BY clause: the rows in id order.
get_all_words_NoOrderBy(t) ==
    {s \in SeqsOf(t.rows) : \A i, j \in DOMAIN s : i < j => s[i].id <= s[j].id}

get_all_words(t) ==
    {s \in SeqsOf(t.rows) :
        \A i, j \in DOMAIN s : i < j =>
            \/ s[i].sort_order < s[j].sort_order
            \/ s[i].sort_order = s[j].sort_order /\ s[i].id <= s[j].id}

(***************************************************************************)
(* The locations a DatabaseManager can be opened on: a location with no    *)
(* dictionary table, and files left by v2-v4, whose init_db created        *)
(* dictionary with term TEXT UNIQUE.  In such a file the terms, the ids    *)
(* and the sort_order values are pairwise distinct (v2-v4 insert with      *)
(* MAX(sort_order) + 1 and only exchange sort_order values).               *)
(***************************************************************************)
LegacyRow(id, term, pos, order) ==
    MkRow(id, [term |-> term, pos |-> pos, pronunciation |-> P1.pronunciation,
               meaning |-> P1.meaning, example |-> P1.example], order)

LegacyRows ==
    {{}} \cup
    { {LegacyRow(1, "a", p, o)} : p \in PosSet, o \in 1..2 } \cup
    { {LegacyRow(2, "b", p, o)} : p \in PosSet, o \in 1..2 } \cup
    { {LegacyRow(1, "a", p1, o), LegacyRow(2, "b", p2, 3 - o)} :
        p1 \in PosSet, p2 \in PosSet, o \in 1..2 }

LegacyTables ==
    { [key |-> "term", rows |-> rows,
       seq |-> SetMax({0} \cup {r.id : r \in rows})] : rows \in LegacyRows }

EmptyLocation == [dictionary |-> NoTable, dictionary_old |-> NoTable]

Locations ==
    {EmptyLocation} \cup
    { [dictionary |-> t, dictionary_old |-> NoTable] : t \in LegacyTables }

NoCall == [op |-> "none", ret |-> "none", fault |-> FALSE]

\* A line of the log: its text and the number it carries, if any.
Note(text, n) == [text |-> text, n |-> n]

\* The window before it is built: empty search box, search mode "contains",
\* empty list, nothing selected, no entry in the detail pane (detail is the
\* id of the entry shown, 0: none), nothing logged.
NoUi == [search |-> "", mode |-> "contains", display |-> <<>>, sel |-> 0,
         detail |-> 0, note |-> Note("none", 0)]

\* No function of the window has been called.
NoFn == [op |-> "none", in |-> <<>>, out |-> <<>>]

\* The settings table with no row: every key is unset.
SettingKeys == {"theme", "splash_style"}
NoSettings == [k \in SettingKeys |-> "unset"]

\* The paths of two database files: DEFAULT_DB_NAME and another one.
Paths == {"dictionary.db", "other.db"}

\* The window's store before the window is built: the default path is the
\* one to mount, and the file at the other path, whose content is other
\* while it is not mounted, does not exist.
NoSys == [db_path |-> "dictionary.db", last_db_path |-> "dictionary.db",
          other |-> EmptyLocation]

\* No run of crashes is recorded.
NoOrigin == [file |-> EmptyLocation, crashed |-> FALSE]

Init ==
    /\ disk \in Locations
    /\ view = disk
    /\ pc = "closed"
    /\ last = NoCall
    /\ pre = disk
    /\ failed = "none"
    /\ fault = FALSE
    /\ ui = NoUi
    /\ fn = NoFn
    /\ settings = NoSettings
    /\ sys = NoSys
    /\ origin = NoOrigin

(***************************************************************************)
(* v6 DatabaseManager: one connection (self.conn) kept from __init__ to    *)
(* close; every write method ends with self.conn.commit() and none rolls   *)
(* back, so what a method wrote before it raised stays in the connection's *)
(* open transaction.                                                       *)
(***************************************************************************)

\* migrate_db of v6: CREATE TABLE IF NOT EXISTS inside "with self.conn".
migrate_db_v6(d) ==
    [d EXCEPT !.dictionary = CreateTableIfNotExists(@)]

\* DatabaseManager(db_path): connect, then migrate_db.
Open ==
    /\ pc = "closed"
    /\ disk' = migrate_db_v6(disk)
    /\ view' = disk'
    /\ pc' = "open"
    /\ last' = [NoCall EXCEPT !.op = "open"]
    /\ UNCHANGED <<pre, failed, fault>>
    /\ UNCHANGED <<ui, fn, settings, sys, origin>>

\* close(): the connection goes, and with it an uncommitted transaction.
Close ==
    /\ pc = "open"
    /\ view' = disk
    /\ pc' = "closed"
    /\ last' = [NoCall EXCEPT !.op = "close"]
    /\ UNCHANGED <<disk, pre, failed, fault>>
    /\ UNCHANGED <<ui, fn, settings, sys, origin>>

\* The result of upsert_word(data) on table t: the table after it and the
\* value returned ("IntegrityError" when the INSERT is refused).
UpsertResult(t, data) ==
    IF SelectByKey(t, data.term, data.pos) # {}
    THEN [table |-> UpdateFields(t, data), ret |-> "updated"]
    ELSE IF UniqueViolation(t, data.term, data.pos)
         THEN [table |-> t, ret |-> "IntegrityError"]
         ELSE [table |-> InsertRow(t, data, NewOrder(t)), ret |-> "created"]

\* The bound of the model: no id and no sort_order above MaxId is handed out.
InBounds(t) ==
    /\ t.seq <= MaxId
    /\ \A r \in t.rows : r.sort_order <= MaxId

\* upsert_word(data); f: the write statement (UPDATE or INSERT) fails.
upsert_word(data, f) ==
    /\ pc = "open"
    /\ LET res == UpsertResult(view.dictionary, data) IN
       /\ InBounds(res.table)
       /\ IF f \/ res.ret = "IntegrityError"
          THEN /\ last' = [op |-> "upsert_word", ret |-> IF f THEN "OperationalError" ELSE res.ret,
                           fault |-> f]
               /\ UNCHANGED <<disk, view>>
          ELSE /\ view' = [view EXCEPT !.dictionary = res.table]
               /\ disk' = view'
               /\ last' = [op |-> "upsert_word", ret |-> res.ret, fault |-> FALSE]
    /\ UNCHANGED <<pc, pre, failed, fault>>
    /\ UNCHANGED <<ui, fn, settings, sys, origin>>

\* delete_word(term, pos); f: the DELETE fails.
delete_word(term, pos, f) ==
    /\ pc = "open"
    /\ IF f
       THEN /\ last' = [op |-> "delete_word", ret |-> "OperationalError", fault |-> TRUE]
            /\ UNCHANGED <<disk, view>>
       ELSE /\ view' = [view EXCEPT !.dictionary = DeleteByKey(@, term, pos)]
            /\ disk' = view'
            /\ last' = [op |-> "delete_word", ret |-> "None", fault |-> FALSE]
    /\ UNCHANGED <<pc, pre, failed, fault>>
    /\ UNCHANGED <<ui, fn, settings, sys, origin>>

\* update_order(id1, order1, id2, order2); k: the k-th UPDATE fails (0: none).
update_order(id1, order1, id2, order2, k) ==
    /\ pc = "open"
    /\ LET first == UpdateOrderById(view.dictionary, order1, id1)
           second == UpdateOrderById(first, order2, id2)
       IN
       /\ k = 0 =>
            /\ view' = [view EXCEPT !.dictionary = second]
            /\ disk' = view'
            /\ last' = [op |-> "update_order", ret |-> "None", fault |-> FALSE]
       /\ k = 1 =>
            /\ UNCHANGED <<disk, view>>
            /\ last' = [op |-> "update_order", ret |-> "OperationalError", fault |-> TRUE]
       /\ k = 2 =>
            /\ view = disk
            /\ view' = [view EXCEPT !.dictionary = first]
            /\ UNCHANGED disk
            /\ last' = [op |-> "update_order", ret |-> "OperationalError", fault |-> TRUE]
    /\ UNCHANGED <<pc, pre, failed, fault>>
    /\ UNCHANGED <<ui, fn, settings, sys, origin>>

Upsert == \E data \in Candidates, f \in BOOLEAN : upsert_word(data, f)
Delete == \E t \in Terms, p \in PosSet, f \in BOOLEAN : delete_word(t, p, f)
\* update_order is called by _move alone, which passes two listed entries'
\* ids, each with the other's sort_order.
Reorder ==
    \E r1, r2 \in view.dictionary.rows, k \in 0..2 :
        /\ r1 # r2
        /\ update_order(r1.id, r2.sort_order, r2.id, r1.sort_order, k)

Next == Open \/ Close \/ Upsert \/ Delete \/ Reorder

Spec == Init /\ [][Next]_vars

(***************************************************************************)
(* v5 DatabaseManager.  Every method opens its own connection inside       *)
(* "with self.get_connection() as conn", which commits when the block ends *)
(* normally and rolls back when it raises.  migrate_db runs at every       *)
(* construction; it is modelled statement by statement, and each of its    *)
(* four statements may fail (f) once per run.                              *)
(***************************************************************************)

\* ALTER TABLE dictionary RENAME TO dictionary_old
RenameTable(d) ==
    [dictionary |-> NoTable, dictionary_old |-> d.dictionary]

\* _create_v2_4_table: CREATE TABLE IF NOT EXISTS dictionary (... UNIQUE(term, pos))
create_v2_4_table(d) ==
    [d EXCEPT !.dictionary = CreateTableIfNotExists(@)]

\* The copy with sort_order left out of the column lists.
CopyRows_NoOrder(t, old) ==
    [t EXCEPT
        !.rows = @ \cup
            { [r EXCEPT !.id = t.seq + Cardinality({q \in old.rows : q.id <= r.id}),
                        !.sort_order = 0] : r \in old.rows },
        !.seq = IF old.rows = {} THEN @ ELSE @ + Cardinality(old.rows)]

\* INSERT INTO dictionary (term, ..., sort_order) SELECT term, ..., sort_order
\* FROM dictionary_old: the rows are read in id order and get new ids.
CopyRows(t, old) ==
    [t EXCEPT
        !.rows = @ \cup
            { [r EXCEPT !.id = t.seq + Cardinality({q \in old.rows : q.id <= r.id})] :
              r \in old.rows },
        !.seq = IF old.rows = {} THEN @ ELSE @ + Cardinality(old.rows)]

\* Whether the copy breaks the new table's UNIQUE(term, pos).
CopyViolation(t, old) ==
    \/ \E r \in old.rows : UniqueViolation(t, r.term, r.pos)
    \/ \E r1, r2 \in old.rows : r1 # r2 /\ r1.term = r2.term /\ r1.pos = r2.pos

\* A DROP TABLE that names the new table.
DropTable_Dictionary(d) == [d EXCEPT !.dictionary = NoTable]

\* DROP TABLE dictionary_old
DropTable(d) == [d EXCEPT !.dictionary_old = NoTable]

\* migrate_db up to the branch on the table's existence.
v5_migrate_check ==
    /\ pc = "closed"
    /\ pre' = disk
    /\ failed' = "none"
    /\ fault' = FALSE
    /\ last' = [NoCall EXCEPT !.op = "migrate_db"]
    /\ origin' = IF last.op = "crash"
                 THEN [origin EXCEPT !.crashed = TRUE]
                 ELSE [file |-> disk, crashed |-> FALSE]
    /\ IF disk.dictionary.key = "none"
       THEN /\ disk' = create_v2_4_table(disk)
            /\ pc' = "m_commit"
       ELSE /\ disk' = disk
            /\ pc' = "m_rename"
    /\ view' = disk'
    /\ UNCHANGED <<ui, fn, settings, sys>>

\* The statement raised: the except clauses swallow it and control goes to
\* conn.commit().
Raised(step, f) ==
    /\ failed' = step
    /\ fault' = f
    /\ pc' = "m_commit"

v5_rename(f) ==
    /\ pc = "m_rename"
    /\ IF f \/ disk.dictionary_old.key # "none"
       THEN /\ Raised("rename", f)
            /\ UNCHANGED <<disk, view>>
       ELSE /\ disk' = RenameTable(disk)
            /\ view' = disk'
            /\ pc' = "m_create"
            /\ UNCHANGED <<failed, fault>>
    /\ UNCHANGED <<last, pre>>
    /\ UNCHANGED <<ui, fn, settings, sys, origin>>

v5_create(f) ==
    /\ pc = "m_create"
    /\ IF f
       THEN /\ Raised("create", f)
            /\ UNCHANGED <<disk, view>>
       ELSE /\ disk' = create_v2_4_table(disk)
            /\ view' = disk'
            /\ pc' = "m_copy"
            /\ UNCHANGED <<failed, fault>>
    /\ UNCHANGED <<last, pre>>
    /\ UNCHANGED <<ui, fn, settings, sys, origin>>

\* The INSERT opens the transaction: from here view runs ahead of disk.
v5_copy(f) ==
    /\ pc = "m_copy"
    /\ IF f \/ CopyViolation(view.dictionary, view.dictionary_old)
       THEN /\ Raised("copy", f)
            /\ UNCHANGED view
       ELSE /\ view' = [view EXCEPT
                          !.dictionary = CopyRows(@, view.dictionary_old)]
            /\ pc' = "m_drop"
            /\ UNCHANGED <<failed, fault>>
    /\ UNCHANGED <<disk, last, pre>>
    /\ UNCHANGED <<ui, fn, settings, sys, origin>>

\* The DROP committed by itself as it runs, the copy still uncommitted.
v5_drop_Autocommit(f) ==
    /\ pc = "m_drop"
    /\ IF f
       THEN /\ Raised("drop", f)
            /\ UNCHANGED <<disk, view>>
       ELSE /\ view' = DropTable(view)
            /\ disk' = DropTable(disk)
            /\ pc' = "m_commit"
            /\ UNCHANGED <<failed, fault>>
    /\ UNCHANGED <<last, pre>>
    /\ UNCHANGED <<ui, fn, settings, sys, origin>>

\* DROP TABLE dictionary_old, inside the transaction the copy opened.
v5_drop(f) ==
    /\ pc = "m_drop"
    /\ IF f
       THEN /\ Raised("drop", f)
            /\ UNCHANGED view
       ELSE /\ view' = DropTable(view)
            /\ pc' = "m_commit"
            /\ UNCHANGED <<failed, fault>>
    /\ UNCHANGED <<disk, last, pre>>
    /\ UNCHANGED <<ui, fn, settings, sys, origin>>

\* conn.commit() and the end of the with block: DatabaseManager(db_file) returns.
v5_commit ==
    /\ pc = "m_commit"
    /\ disk' = view
    /\ view' = view
    /\ pc' = "open"
    /\ last' = [NoCall EXCEPT !.op = "open"]
    /\ UNCHANGED <<pre, failed, fault>>
    /\ UNCHANGED <<ui, fn, settings, sys, origin>>

\* What the migration's history is reset to once the store is used: the
\* properties of migrate_db read it in the state in which Open returned.
Forget ==
    /\ pre' = EmptyLocation
    /\ failed' = "none"
    /\ fault' = FALSE
    /\ origin' = NoOrigin

\* A bound of the model: a store in which a failed run of migrate_db left
\* dictionary_old behind is closed and opened again, and not used otherwise.
NoLeftover == disk.dictionary_old.key = "none"

\* v5 upsert_word(data): one connection, committed as the with block ends.
v5_upsert_word(data) ==
    /\ pc = "open"
    /\ NoLeftover
    /\ IF disk.dictionary.key = "none"
       THEN /\ last' = [op |-> "upsert_word", ret |-> "OperationalError",
                        fault |-> FALSE]
            /\ UNCHANGED disk
       ELSE LET res == UpsertResult(disk.dictionary, data) IN
            /\ InBounds(res.table)
            /\ disk' = [disk EXCEPT !.dictionary = res.table]
            /\ last' = [op |-> "upsert_word", ret |-> res.ret, fault |-> FALSE]
    /\ view' = disk'
    /\ Forget
    /\ UNCHANGED pc
    /\ UNCHANGED <<ui, fn, settings, sys>>

\* v5 delete_word(term, pos)
v5_delete_word(term, pos) ==
    /\ pc = "open"
    /\ NoLeftover
    /\ IF disk.dictionary.key = "none"
       THEN /\ last' = [op |-> "delete_word", ret |-> "OperationalError",
                        fault |-> FALSE]
            /\ UNCHANGED disk
       ELSE /\ disk' = [disk EXCEPT !.dictionary = DeleteByKey(@, term, pos)]
            /\ last' = [op |-> "delete_word", ret |-> "None", fault |-> FALSE]
    /\ view' = disk'
    /\ Forget
    /\ UNCHANGED pc
    /\ UNCHANGED <<ui, fn, settings, sys>>

\* v5 update_order(id1, order1, id2, order2); k: the k-th UPDATE fails, and
\* the with block rolls the transaction back.
v5_update_order(id1, order1, id2, order2, k) ==
    /\ pc = "open"
    /\ NoLeftover
    /\ IF k # 0 \/ disk.dictionary.key = "none"
       THEN /\ last' = [op |-> "update_order", ret |-> "OperationalError",
                        fault |-> k # 0]
            /\ UNCHANGED disk
       ELSE /\ disk' = [disk EXCEPT !.dictionary =
                          UpdateOrderById(UpdateOrderById(@, order1, id1),
                                          order2, id2)]
            /\ last' = [op |-> "update_order", ret |-> "None", fault |-> FALSE]
    /\ view' = disk'
    /\ Forget
    /\ UNCHANGED pc
    /\ UNCHANGED <<ui, fn, settings, sys>>

\* The process ends; the next run constructs DatabaseManager again.
v5_exit ==
    /\ pc = "open"
    /\ pc' = "closed"
    /\ last' = [NoCall EXCEPT !.op = "close"]
    /\ Forget
    /\ UNCHANGED <<disk, view>>
    /\ UNCHANGED <<ui, fn, settings, sys>>

V5Migrate ==
    \/ v5_migrate_check
    \/ \E f \in BOOLEAN : v5_rename(f)
    \/ \E f \in BOOLEAN : v5_create(f)
    \/ \E f \in BOOLEAN : v5_copy(f)
    \/ \E f \in BOOLEAN : v5_drop(f)
    \/ v5_commit

V5Upsert == \E data \in Candidates : v5_upsert_word(data)
V5Delete == \E t \in Terms, p \in PosSet : v5_delete_word(t, p)
V5Reorder ==
    \E r1, r2 \in disk.dictionary.rows, k \in 0..2 :
        /\ r1 # r2
        /\ v5_update_order(r1.id, r2.sort_order, r2.id, r1.sort_order, k)

NextV5 == V5Migrate \/ V5Upsert \/ V5Delete \/ V5Reorder \/ v5_exit

SpecV5 == Init /\ [][NextV5]_vars

(***************************************************************************)
(* The v5 settings accessors.  A row of the settings table is a key and a  *)
(* value; "unset" stands for a key that has no row.  The window passes the *)
(* names of a theme and of a splash style, both strings.                   *)
(***************************************************************************)
SettingValues == {"Dark", "Light"}

\* INSERT OR IGNORE in place of INSERT OR REPLACE: a stored row is kept.
InsertOrReplace_Ignore(t, key, value) ==
    IF t[key] = "unset" THEN [t EXCEPT ![key] = value] ELSE t

\* INSERT OR REPLACE INTO settings (key, value) VALUES (?, ?)
InsertOrReplace(t, key, value) == [t EXCEPT ![key] = value]

\* SELECT value FROM settings WHERE key = ?; res[0] if res else default
SelectValue(t, key, default) ==
    IF t[key] = "unset" THEN default ELSE t[key]

\* set_setting(key, value): one connection, committed as the with block ends.
set_setting(key, value) ==
    /\ pc = "open"
    /\ settings' = InsertOrReplace(settings, key, value)
    /\ fn' = [op |-> "set_setting", in |-> <<key, value>>, out |-> <<>>]
    /\ UNCHANGED <<disk, view, pc, last, pre, failed, fault, ui, sys, origin>>

\* get_setting(key, default)
get_setting(key, default) ==
    /\ pc = "open"
    /\ fn' = [op |-> "get_setting", in |-> <<key, default>>,
              out |-> <<SelectValue(settings, key, default)>>]
    /\ UNCHANGED <<disk, view, pc, last, pre, failed, fault, ui, settings, sys,
                   origin>>

\* A file that does not exist yet: migrate_db creates both tables.
InitSettings ==
    /\ Init
    /\ disk = EmptyLocation

SetSetting == \E k \in SettingKeys, v \in SettingValues : set_setting(k, v)
GetSetting == \E k \in SettingKeys, d \in SettingValues : get_setting(k, d)

NextSettings ==
    v5_migrate_check \/ v5_commit \/ V5Upsert \/ SetSetting \/ GetSetting

SpecSettings == InitSettings /\ [][NextSettings]_vars

\* The process stops inside migrate_db: the connection goes, and with it
\* the uncommitted transaction.  The next run constructs DatabaseManager
\* again.
v5_crash ==
    /\ pc \in {"m_rename", "m_create", "m_copy", "m_drop", "m_commit"}
    /\ view' = disk
    /\ pc' = "closed"
    /\ last' = [NoCall EXCEPT !.op = "crash"]
    /\ UNCHANGED <<disk, pre, failed, fault>>
    /\ UNCHANGED <<ui, fn, settings, sys, origin>>

NextV5Crash == NextV5 \/ v5_crash

SpecV5Crash == Init /\ [][NextV5Crash]_vars

(***************************************************************************)
(* Text.  A Python str is named by a TLA+ string; Text gives its           *)
(* characters.  The alphabet has a letter in both cases and a letter in    *)
(* lower case only; str.lower() maps "A" to "a" and leaves the rest.       *)
(***************************************************************************)
MaxLen == 2      \* longest term and longest query of the filter's inputs

Letters == {"a", "A", "b"}

RECURSIVE StrTable(_)
StrTable(n) ==
    IF n = 0 THEN {[s |-> "", cs |-> <<>>]}
    ELSE StrTable(n - 1) \cup
         {[s |-> e.s \o c, cs |-> Append(e.cs, c)] : e \in StrTable(n - 1), c \in Letters}

Strs == {e.s : e \in StrTable(MaxLen)}

TextTable == [s \in Strs |-> (CHOOSE e \in StrTable(MaxLen) : e.s = s).cs]

\* The characters of the str named s.
Text(s) == TextTable[s]

\* str.lower()
LowerChar(c) == IF c = "A" THEN "a" ELSE c
Lower(cs) == [i \in DOMAIN cs |-> LowerChar(cs[i])]

\* q in w
IsIn(q, w) ==
    \E i \in 0..(Len(w) - Len(q)) : SubSeq(w, i + 1, i + Len(q)) = q

\* w.startswith(q)
StartsWith(w, q) == Len(q) <= Len(w) /\ SubSeq(w, 1, Len(q)) = q

\* w.endswith(q)
EndsWith(w, q) ==
    Len(q) <= Len(w) /\ SubSeq(w, Len(w) - Len(q) + 1, Len(w)) = q

Modes == {"contains", "startswith", "endswith"}

\* The test with the lower() calls left out.
ItemMatches_CaseSensitive(item, query, mode) ==
    LET w_l == Text(item.term)
        q == Text(query)
    IN IF q = <<>> THEN TRUE
       ELSE IF mode = "contains" /\ IsIn(q, w_l) THEN TRUE
       ELSE IF mode = "startswith" /\ StartsWith(w_l, q) THEN TRUE
       ELSE IF mode = "endswith" /\ EndsWith(w_l, q) THEN TRUE
       ELSE FALSE

\* The test that ignores the search mode and always looks for a substring.
ItemMatches_AlwaysContains(item, query, mode) ==
    LET w_l == Lower(Text(item.term))
        q == Lower(Text(query))
    IN q = <<>> \/ IsIn(q, w_l)

\* The body of refresh_list's loop: m, for one item of data_cache.
ItemMatches(item, query, mode) ==
    LET w_l == Lower(Text(item.term))
        q == Lower(Text(query))
    IN IF q = <<>> THEN TRUE
       ELSE IF mode = "contains" /\ IsIn(q, w_l) THEN TRUE
       ELSE IF mode = "startswith" /\ StartsWith(w_l, q) THEN TRUE
       ELSE IF mode = "endswith" /\ EndsWith(w_l, q) THEN TRUE
       ELSE FALSE

\* refresh_list's loop: display_items, the matching items of data_cache in
\* data_cache's order.
Filter(items, query, mode) ==
    SelectSeq(items, LAMBDA item : ItemMatches(item, query, mode))

(***************************************************************************)
(* The filter as a function: the entry list, the query and the mode are    *)
(* drawn when the behaviour starts, and one step applies refresh_list's    *)
(* loop to them.  An entry of the list has a term and a pos.               *)
(***************************************************************************)
FilterEntries == {[term |-> t, pos |-> "a"] : t \in Strs}

FilterLists ==
    {<<>>} \cup {<<e>> : e \in FilterEntries}
           \cup {<<e1, e2>> : e1 \in FilterEntries, e2 \in FilterEntries}

InitFilter ==
    /\ disk = EmptyLocation
    /\ view = disk
    /\ pc = "closed"
    /\ last = NoCall
    /\ pre = disk
    /\ failed = "none"
    /\ fault = FALSE
    /\ ui = NoUi
    /\ fn \in {[op |-> "filter_args", in |-> [items |-> l, query |-> q, mode |-> m],
                out |-> <<>>] : l \in FilterLists, q \in Strs, m \in Modes}
    /\ settings = NoSettings
    /\ sys = NoSys
    /\ origin = NoOrigin

FilterCall ==
    /\ fn.op = "filter_args"
    /\ fn' = [fn EXCEPT !.op = "filter",
                        !.out = Filter(fn.in.items, fn.in.query, fn.in.mode)]
    /\ UNCHANGED <<disk, view, pc, last, pre, failed, fault, ui, settings, sys, origin>>

NextFilter == FilterCall

SpecFilter == InitFilter /\ [][NextFilter]_vars

(***************************************************************************)
(* Links.  show_detail scans the detail text with the regular expression   *)
(* \[(.*?)\] and inserts, in order, the text before each match, the        *)
(* match's group as a link, and the text after the last match.  A text is  *)
(* a sequence of characters here; "." matches every character but the     *)
(* line break.                                                             *)
(***************************************************************************)
MaxText == 5     \* longest text given to the link scanner

LinkChars == {"[", "]", "x", "\n"}

SetMin(S) == CHOOSE x \in S : \A y \in S : x <= y

\* The positions at which a match that starts at i can end: a "]" with no
\* line break between it and i.
Closes(c, i) ==
    {j \in (i + 1)..Len(c) :
        c[j] = "]" /\ \A k \in (i + 1)..(j - 1) : c[k] # "\n"}

\* The end of the match at i of the greedy expression, .* in place of .*?
MatchEnd_Greedy(c, i) == SetMax(Closes(c, i))

\* The end of the match at i: .*? takes the fewest characters.
MatchEnd(c, i) == SetMin(Closes(c, i))

\* Whether the expression matches at i.
HasMatch(c, i) == c[i] = "[" /\ Closes(c, i) # {}

PlainSpan(text) == [kind |-> "plain", text |-> text]
LinkSpan(text) == [kind |-> "link", text |-> text]

\* The loop over pattern.finditer(content), from position pos on: the
\* detail_text.insert calls it makes, in order.
RECURSIVE InsertsFrom(_, _)
InsertsFrom(c, pos) ==
    LET starts == {i \in pos..Len(c) : HasMatch(c, i)} IN
    IF starts = {}
    THEN <<PlainSpan(SubSeq(c, pos, Len(c)))>>
    ELSE LET i == SetMin(starts)
             j == MatchEnd(c, i)
         IN <<PlainSpan(SubSeq(c, pos, i - 1)), LinkSpan(SubSeq(c, i + 1, j - 1))>>
            \o InsertsFrom(c, j + 1)

render_text_with_links(content) == InsertsFrom(content, 1)

\* 'See [cat] and [dog].'
ExampleText ==
    <<"S", "e", "e", " ", "[", "c", "a", "t", "]", " ", "a", "n", "d", " ",
      "[", "d", "o", "g", "]", ".">>

RECURSIVE TextsOfLen(_)
TextsOfLen(n) ==
    IF n = 0 THEN {<<>>}
    ELSE {Append(t, ch) : t \in TextsOfLen(n - 1), ch \in LinkChars}

LinkTexts == {ExampleText} \cup UNION {TextsOfLen(n) : n \in 0..MaxText}

InitLinks ==
    /\ disk = EmptyLocation
    /\ view = disk
    /\ pc = "closed"
    /\ last = NoCall
    /\ pre = disk
    /\ failed = "none"
    /\ fault = FALSE
    /\ ui = NoUi
    /\ fn \in {[op |-> "links_args", in |-> c, out |-> <<>>] : c \in LinkTexts}
    /\ settings = NoSettings
    /\ sys = NoSys
    /\ origin = NoOrigin

LinksCall ==
    /\ fn.op = "links_args"
    /\ fn' = [fn EXCEPT !.op = "links", !.out = render_text_with_links(fn.in)]
    /\ UNCHANGED <<disk, view, pc, last, pre, failed, fault, ui, settings, sys, origin>>

NextLinks == LinksCall

SpecLinks == InitLinks /\ [][NextLinks]_vars

(***************************************************************************)
(* The v6 window (ReDicSearcherApp) on its store.  ui.search is the text   *)
(* of the search box, ui.mode the search mode, ui.display the list         *)
(* display_items, ui.sel the selected line of the list box (0: none),      *)
(* ui.detail the id of the entry in the detail pane (0: none) and ui.note  *)
(* the last line written to the log, with its number if any.               *)
(***************************************************************************)

\* The texts typed into the search box and the words of the links clicked.
Queries == {"", "A", "b"}

\* refresh_list(query) in window state u, data_cache being the result of
\* get_all_words: the list box is emptied and filled again.
refresh_list(u, data_cache, query) ==
    [u EXCEPT !.display = Filter(data_cache, query, u.mode), !.sel = 0]

\* ReDicSearcherApp(root): the store is opened and the list is filled.
AppStart ==
    /\ pc = "closed"
    /\ disk' = migrate_db_v6(disk)
    /\ view' = disk'
    /\ pc' = "open"
    /\ last' = [NoCall EXCEPT !.op = "open"]
    /\ \E s \in get_all_words(view'.dictionary) :
          ui' = refresh_list(NoUi, s, "")
    /\ UNCHANGED <<pre, failed, fault, fn, settings, sys, origin>>

\* on_search after a key release that left the text q in the search box.
on_search(q) ==
    /\ pc = "open"
    /\ \E s \in get_all_words(view.dictionary) :
          ui' = refresh_list([ui EXCEPT !.search = q], s, q)
    /\ UNCHANGED <<disk, view, pc, last, pre, failed, fault, fn, settings, sys, origin>>

\* A search mode radio button: search_mode is set, then on_search runs.
select_mode(m) ==
    /\ pc = "open"
    /\ \E s \in get_all_words(view.dictionary) :
          ui' = refresh_list([ui EXCEPT !.mode = m], s, ui.search)
    /\ UNCHANGED <<disk, view, pc, last, pre, failed, fault, fn, settings, sys, origin>>

\* jump_to_word_filter with search_mode.set("contains") left out.
jump_to_word_filter_KeepMode(word) ==
    /\ pc = "open"
    /\ \E s \in get_all_words(view.dictionary) :
          LET u == refresh_list([ui EXCEPT !.search = word], s, word) IN
          ui' = [u EXCEPT !.note = Note("Filtered by link", 0),
                          !.sel = IF Len(u.display) > 0 THEN 1 ELSE 0,
                          !.detail = IF Len(u.display) > 0 THEN u.display[1].id
                                     ELSE u.detail]
    /\ UNCHANGED <<disk, view, pc, last, pre, failed, fault, fn, settings, sys, origin>>

\* jump_to_word_filter(word): a click on the link word.  The search box is
\* set to word, the mode to "contains", the list is refreshed, the line
\* "Filtered by link" is logged and, the list not being empty, its first
\* line is selected and show_detail shows its entry.
jump_to_word_filter(word) ==
    /\ pc = "open"
    /\ \E s \in get_all_words(view.dictionary) :
          LET u == refresh_list([ui EXCEPT !.search = word, !.mode = "contains"],
                                s, word)
          IN ui' = [u EXCEPT !.note = Note("Filtered by link", 0),
                             !.sel = IF Len(u.display) > 0 THEN 1 ELSE 0,
                             !.detail = IF Len(u.display) > 0 THEN u.display[1].id
                                        ELSE u.detail]
    /\ UNCHANGED <<disk, view, pc, last, pre, failed, fault, fn, settings, sys, origin>>

(***************************************************************************)
(* import_json_logic.  The content of the file is a JSON array of records  *)
(* (shape "array") or a JSON object (shape "object"), modelled by the      *)
(* sequence of its members, each a key and a record.  A record is a        *)
(* function from the field names it carries to their values.               *)
(***************************************************************************)

\* A member of the file that is not a JSON object (a number, a string,
\* null): it has no get method.
NotADict == [json |-> "number"]
IsDict(item) == item # NotADict

\* item.get(k, d)
Get(item, k, d) == IF k \in DOMAIN item THEN item[k] ELSE d

\* dict(term=k, **v), for a v that carries no term
WithTerm(v, k) ==
    [f \in DOMAIN v \cup {"term"} |-> IF f = "term" THEN k ELSE v[f]]

\* items = content if isinstance(content, list)
\*         else [dict(term=k, **v) for k, v in content.items()]
\* dict() raises TypeError when v carries a term of its own or is not an
\* object.
ImportItems(content) ==
    IF content.shape = "array"
    THEN [error |-> FALSE, items |-> content.items]
    ELSE IF \E i \in DOMAIN content.items :
                \/ ~IsDict(content.items[i].value)
                \/ "term" \in DOMAIN content.items[i].value
         THEN [error |-> TRUE, items |-> <<>>]
         ELSE [error |-> FALSE,
               items |-> [i \in DOMAIN content.items |->
                             WithTerm(content.items[i].value, content.items[i].key)]]

\* term = item.get("term", item.get("word", ""))
ImportTerm(item) == Get(item, "term", Get(item, "word", ""))

\* The candidate with pos read from part_of_speech alone.
ImportCandidate_PosAliasOnly(item) ==
    [term |-> ImportTerm(item),
     pronunciation |-> Get(item, "pronunciation", ""),
     pos |-> Get(item, "part_of_speech", ""),
     meaning |-> Get(item, "definition", Get(item, "meaning", "")),
     example |-> Get(item, "example", "")]

\* The dictionary handed to upsert_word for item.
ImportCandidate(item) ==
    [term |-> ImportTerm(item),
     pronunciation |-> Get(item, "pronunciation", ""),
     pos |-> Get(item, "part_of_speech", Get(item, "pos", "")),
     meaning |-> Get(item, "definition", Get(item, "meaning", "")),
     example |-> Get(item, "example", "")]

\* The loop over items on table t: the table after it, the count, the
\* candidates handed to upsert_word, and whether the loop raised (item.get
\* on a member that is not an object, or upsert_word).
RECURSIVE ImportLoop(_, _, _, _)
ImportLoop(t, items, count, handed) ==
    IF items = <<>>
    THEN [table |-> t, count |-> count, handed |-> handed, error |-> FALSE]
    ELSE IF ~IsDict(Head(items))
         THEN [table |-> t, count |-> count, handed |-> handed, error |-> TRUE]
    ELSE IF ImportTerm(Head(items)) = ""
         THEN ImportLoop(t, Tail(items), count, handed)
         ELSE LET data == ImportCandidate(Head(items))
                  res == UpsertResult(t, data)
              IN IF res.ret = "IntegrityError"
                 THEN [table |-> t, count |-> count,
                       handed |-> Append(handed, data), error |-> TRUE]
                 ELSE ImportLoop(res.table, Tail(items), count + 1,
                                 Append(handed, data))

\* The import as one transaction: an error undoes the records before it.
ImportRun_AllOrNothing(t, content) ==
    IF ImportItems(content).error
    THEN [table |-> t, count |-> 0, handed |-> <<>>, error |-> TRUE]
    ELSE LET run == ImportLoop(t, ImportItems(content).items, 0, <<>>)
         IN IF run.error THEN [run EXCEPT !.table = t, !.count = 0] ELSE run

\* What import_json_logic does with content on table t.
ImportRun(t, content) ==
    IF ImportItems(content).error
    THEN [table |-> t, count |-> 0, handed |-> <<>>, error |-> TRUE]
    ELSE ImportLoop(t, ImportItems(content).items, 0, <<>>)

\* import_json_logic(filepath), content being what json.load returns.
import_json_logic(content) ==
    /\ pc = "open"
    /\ LET run == ImportRun(view.dictionary, content) IN
       /\ InBounds(run.table)
       /\ view' = [view EXCEPT !.dictionary = run.table]
       /\ disk' = IF run.count = 0 THEN disk ELSE view'
       /\ IF run.error
          THEN /\ ui' = [ui EXCEPT !.note = Note("Import Error", 0)]
               /\ last' = [op |-> "import_json_logic", ret |-> "Import Error",
                           fault |-> FALSE]
          ELSE /\ \E s \in get_all_words(run.table) :
                    ui' = [refresh_list(ui, s, "") EXCEPT
                              !.note = Note("Imported", run.count)]
               /\ last' = [op |-> "import_json_logic", ret |-> "Imported",
                           fault |-> FALSE]
    /\ UNCHANGED <<pc, pre, failed, fault, fn, settings, sys, origin>>

\* The records of the import files.
ImportRecords ==
    { [term |-> "Ab", pos |-> "N", meaning |-> "m1"],
      [word |-> "b", part_of_speech |-> "V", definition |-> "m2",
       pronunciation |-> "p2", example |-> "e2"],
      [term |-> "a", word |-> "b", part_of_speech |-> "V", pos |-> "N",
       definition |-> "m2", meaning |-> "m1"],
      [term |-> "", word |-> "b", pos |-> "N"],
      [pos |-> "N", meaning |-> "m1"],
      [word |-> "a"] }

\* The values of the object form.
ImportValues ==
    { [pos |-> "N", meaning |-> "m1"],
      [part_of_speech |-> "V", definition |-> "m2"],
      [term |-> "b", pos |-> "N"],
      [word |-> "b", pos |-> "V"] }

ArrayContents ==
    { [shape |-> "array", items |-> l] :
        l \in {<<>>} \cup {<<r>> : r \in ImportRecords}
                     \cup {<<r1, r2>> : r1 \in ImportRecords, r2 \in ImportRecords} }

Member(k, v) == [key |-> k, value |-> v]

ObjectContents ==
    { [shape |-> "object", items |-> l] :
        l \in {<<>>} \cup {<<Member(k, v)>> : k \in Terms, v \in ImportValues}
                     \cup {<<Member(p[1], v1), Member(p[2], v2)>> :
                             p \in {kk \in Terms \X Terms : kk[1] # kk[2]},
                             v1 \in ImportValues, v2 \in ImportValues} }

ImportContents == ArrayContents \cup ObjectContents

InitApp ==
    /\ disk = EmptyLocation
    /\ view = disk
    /\ pc = "closed"
    /\ last = NoCall
    /\ pre = disk
    /\ failed = "none"
    /\ fault = FALSE
    /\ ui = NoUi
    /\ fn = NoFn
    /\ settings = NoSettings
    /\ sys = NoSys
    /\ origin = NoOrigin

Search == \E q \in Queries : on_search(q)
SelectMode == \E m \in Modes : select_mode(m)
Jump == \E w \in Queries : jump_to_word_filter(w)
Import == \E content \in ImportContents : import_json_logic(content)

NextApp == AppStart \/ Search \/ SelectMode \/ Jump \/ Import

SpecApp == InitApp /\ [][NextApp]_vars

(***************************************************************************)
(* The remaining handlers of the v6 window.  A statement on the store may  *)
(* fail (f, k) as in DatabaseManager; no handler of the window catches     *)
(* the exception, so the handler stops where it was raised.  pc = "stale"  *)
(* is the window whose db_manager has a closed connection.                 *)
(***************************************************************************)

\* clear_search (Escape): the search box is emptied and the list refreshed.
clear_search ==
    /\ pc = "open"
    /\ \E s \in get_all_words(view.dictionary) :
          ui' = refresh_list([ui EXCEPT !.search = ""], s, "")
    /\ UNCHANGED <<disk, view, pc, last, pre, failed, fault, fn, settings, sys,
                   origin>>

\* show_detail after the user selected line i of the list box.
show_detail(i) ==
    /\ pc = "open"
    /\ i \in DOMAIN ui.display
    /\ ui' = [ui EXCEPT !.sel = i, !.detail = ui.display[i].id]
    /\ UNCHANGED <<disk, view, pc, last, pre, failed, fault, fn, settings, sys,
                   origin>>

\* save_entry in write mode, data being the stripped fields of the form
\* and pos_var; f: the write statement of upsert_word fails.
save_entry(data, f) ==
    /\ pc = "open"
    /\ IF data.term = ""
       THEN /\ ui' = [ui EXCEPT !.note = Note("Term required", 0)]
            /\ UNCHANGED <<disk, view>>
       ELSE LET res == UpsertResult(view.dictionary, data) IN
            /\ InBounds(res.table)
            /\ IF f \/ res.ret = "IntegrityError"
               THEN UNCHANGED <<disk, view, ui>>
               ELSE /\ view' = [view EXCEPT !.dictionary = res.table]
                    /\ disk' = view'
                    /\ \E s \in get_all_words(res.table) :
                          ui' = [refresh_list(ui, s, ui.search) EXCEPT
                                    !.note = Note(IF res.ret = "created"
                                                  THEN "Registered" ELSE "Updated", 0)]
    /\ UNCHANGED <<pc, last, pre, failed, fault, fn, settings, sys, origin>>

\* delete_entry with a term in the form and the question answered yes;
\* f: the DELETE fails.
delete_entry(term, pos, f) ==
    /\ pc = "open"
    /\ term # ""
    /\ IF f
       THEN UNCHANGED <<disk, view, ui>>
       ELSE /\ view' = [view EXCEPT !.dictionary = DeleteByKey(@, term, pos)]
            /\ disk' = view'
            /\ \E s \in get_all_words(view'.dictionary) :
                  ui' = [refresh_list(ui, s, ui.search) EXCEPT
                            !.note = Note("Deleted", 0)]
    /\ UNCHANGED <<pc, last, pre, failed, fault, fn, settings, sys, origin>>

\* _move(d), d = -1 (move_up) or 1 (move_down); k: the k-th UPDATE of
\* update_order fails (0: none).
move(d, k) ==
    /\ pc = "open"
    /\ IF ui.search # ""
       THEN /\ ui' = [ui EXCEPT !.note = Note("Clear search first", 0)]
            /\ UNCHANGED <<disk, view>>
       ELSE IF ui.sel = 0 \/ ui.sel + d \notin DOMAIN ui.display
       THEN UNCHANGED <<disk, view, ui>>
       ELSE LET item1 == ui.display[ui.sel]
                item2 == ui.display[ui.sel + d]
                first == UpdateOrderById(view.dictionary, item2.sort_order, item1.id)
                second == UpdateOrderById(first, item1.sort_order, item2.id)
            IN
            /\ k = 0 =>
                 /\ view' = [view EXCEPT !.dictionary = second]
                 /\ disk' = view'
                 /\ \E s \in get_all_words(second) :
                       ui' = [refresh_list(ui, s, "") EXCEPT !.sel = ui.sel + d]
            /\ k = 1 => UNCHANGED <<disk, view, ui>>
            /\ k = 2 =>
                 /\ view = disk
                 /\ view' = [view EXCEPT !.dictionary = first]
                 /\ UNCHANGED <<disk, ui>>
    /\ UNCHANGED <<pc, last, pre, failed, fault, fn, settings, sys, origin>>

\* switch_db(new_db_path); f: DatabaseManager(new_db_path) raises (the file
\* cannot be opened, or is not a database).  The old store is closed first.
\* A bound of the model: dictionary.db, once left, is not mounted again, and
\* its content is not kept.
switch_db(new_db_path, f) ==
    /\ pc \in {"open", "stale"}
    /\ new_db_path = sys.db_path \/ sys.db_path = "dictionary.db"
    /\ IF f
       THEN /\ view' = disk
            /\ pc' = "stale"
            /\ UNCHANGED <<disk, ui, sys>>
       ELSE /\ disk' = migrate_db_v6(IF new_db_path = sys.db_path
                                     THEN disk ELSE sys.other)
            /\ view' = disk'
            /\ pc' = "open"
            /\ sys' = [db_path |-> new_db_path, last_db_path |-> new_db_path,
                       other |-> EmptyLocation]
            /\ \E s \in get_all_words(view'.dictionary) :
                  ui' = [refresh_list([ui EXCEPT !.search = ""], s, "") EXCEPT
                            !.note = Note("Switched Cartridge", 0)]
    /\ UNCHANGED <<last, pre, failed, fault, fn, settings, origin>>

\* The fields typed into the form.
WinEntries ==
    { [term |-> "a", pos |-> "N", pronunciation |-> P1.pronunciation,
       meaning |-> P1.meaning, example |-> P1.example],
      [term |-> "a", pos |-> "N", pronunciation |-> P2.pronunciation,
       meaning |-> P2.meaning, example |-> P2.example],
      [term |-> "b", pos |-> "V", pronunciation |-> P1.pronunciation,
       meaning |-> P1.meaning, example |-> P1.example],
      [term |-> "", pos |-> "N", pronunciation |-> P1.pronunciation,
       meaning |-> P1.meaning, example |-> P1.example] }

\* The files imported in the window: a record with no pos; a record, a
\* record with no term and a member that is not an object; that member
\* alone; and an object whose value carries a term.
WinContents ==
    { [shape |-> "array", items |-> <<[word |-> "a"]>>],
      [shape |-> "array",
       items |-> <<[term |-> "Ab", pos |-> "N", meaning |-> "m1"],
                   [pos |-> "N", meaning |-> "m1"], NotADict>>],
      [shape |-> "array", items |-> <<NotADict>>],
      [shape |-> "object", items |-> <<Member("a", [term |-> "b", pos |-> "N"])>>] }

WinQueries == {"", "A"}

WinStart == AppStart
WinSearch == \E q \in WinQueries : on_search(q)
WinSelectMode == \E m \in Modes : select_mode(m)
WinJump == \E w \in WinQueries : jump_to_word_filter(w)
Select == \E i \in 1..MaxId : show_detail(i)
Save == \E data \in WinEntries, f \in BOOLEAN : save_entry(data, f)
DeleteEntry ==
    \E r \in view.dictionary.rows, f \in BOOLEAN : delete_entry(r.term, r.pos, f)
Move == \E d \in {-1, 1}, k \in 0..2 : move(d, k)
SwitchDb == \E p \in Paths, f \in BOOLEAN : switch_db(p, f)
WinImport == \E content \in WinContents : import_json_logic(content)

NextWin ==
    \/ WinStart \/ clear_search \/ WinSearch \/ WinSelectMode \/ WinJump
    \/ Select \/ Save \/ DeleteEntry \/ Move \/ SwitchDb \/ WinImport

SpecWin == InitApp /\ [][NextWin]_vars

(***************************************************************************)
(* Export and import.  do_export_json writes the result of get_all_words   *)
(* as a JSON array of objects, each with the seven columns of its row as   *)
(* keys; fn.out is the array written by the last export.                   *)
(***************************************************************************)

\* dict(zip(columns, row)), as json.dump writes it and json.load reads it.
ExportItem(r) ==
    [id |-> r.id, term |-> r.term, pronunciation |-> r.pronunciation,
     pos |-> r.pos, meaning |-> r.meaning, example |-> r.example,
     sort_order |-> r.sort_order]

\* do_export_json with a path chosen in the dialog.
do_export_json ==
    /\ pc = "open"
    /\ \E s \in get_all_words(view.dictionary) :
          fn' = [op |-> "export", in |-> <<>>,
                 out |-> [i \in DOMAIN s |-> ExportItem(s[i])]]
    /\ ui' = [ui EXCEPT !.note = Note("Exported to JSON", 0)]
    /\ UNCHANGED <<disk, view, pc, last, pre, failed, fault, settings, sys, origin>>

\* import_json_logic on the file the last export wrote.
ImportExported ==
    /\ fn.op = "export"
    /\ import_json_logic([shape |-> "array", items |-> fn.out])

NextRoundTrip ==
    WinStart \/ Save \/ Select \/ Move \/ do_export_json \/ SwitchDb \/ ImportExported

SpecRoundTrip == InitApp /\ [][NextRoundTrip]_vars

(***************************************************************************)
(* Properties of the v5 migration.  They read the state in which           *)
(* DatabaseManager(db_file) has just returned: pre is the file as Open     *)
(* found it, disk the file as Open left it.                                *)
(***************************************************************************)
Opened == pc = "open" /\ last.op = "open"

\* An entry without its id.
Strip(r) == <<r.term, r.pronunciation, r.pos, r.meaning, r.example, r.sort_order>>

\* The results get_all_words may return, ids left out.
Listing(t) == { [i \in DOMAIN s |-> Strip(s[i])] : s \in get_all_words(t) }

\* The multiset of the entries of a table, ids left out.
TupleBag(t) ==
    [x \in {Strip(r) : r \in t.rows} |->
        Cardinality({r \in t.rows : Strip(r) = x})]

\* C5: opening a store whose table has UNIQUE(term), no statement failing,
\* get_all_words returns the entries the table held, field for field and in
\* the same order; the table is now the one with UNIQUE(term, pos).
C5_MigrationRoundTrip ==
    (Opened /\ pre.dictionary.key = "term" /\ ~fault) =>
        /\ disk.dictionary.key = "term_pos"
        /\ Listing(disk.dictionary) = Listing(pre.dictionary)
        /\ Cardinality(disk.dictionary.rows) = Cardinality(pre.dictionary.rows)

\* A two-entry v2-v4 table has been migrated, its second entry listed first.
C5_Witness ==
    /\ Opened /\ pre.dictionary.key = "term" /\ failed = "none"
    /\ disk.dictionary.key = "term_pos"
    /\ \E r1, r2 \in disk.dictionary.rows :
          r1.id < r2.id /\ r2.sort_order < r1.sort_order

\* C6: a run of migrate_db on a migrated store, no statement failing, keeps
\* the multiset of (term, pronunciation, pos, meaning, example, sort_order).
C6_RemigrationKeepsRows ==
    (Opened /\ pre.dictionary.key = "term_pos" /\ ~fault) =>
        TupleBag(disk.dictionary) = TupleBag(pre.dictionary)

\* A migrated store holding an entry has been migrated again, and the run
\* rewrote the table (the entry's id changed).
C6_Witness ==
    /\ Opened /\ pre.dictionary.key = "term_pos" /\ failed = "none"
    /\ pre.dictionary.rows # {}
    /\ disk.dictionary.rows # pre.dictionary.rows

\* C7: when a step of rename, create, copy, drop has failed, Open still
\* returns and get_all_words returns every row the table held before.
C7_FailedStepKeepsRows ==
    (Opened /\ failed # "none") =>
        /\ disk.dictionary.key # "none"
        /\ \A r \in pre.dictionary.rows :
              \E q \in disk.dictionary.rows : Strip(q) = Strip(r)

(***************************************************************************)
(* Properties of the v6 store.  Stored, below, is what get_all_words lists *)
(* through the open connection.                                            *)
(***************************************************************************)
Stored == view.dictionary.rows
StoredAfter == view'.dictionary.rows

HasKey(rows, term, pos) == \E r \in rows : r.term = term /\ r.pos = pos

KeyUnique(rows) ==
    \A r1, r2 \in rows : (r1.term = r2.term /\ r1.pos = r2.pos) => r1 = r2

\* C1: in every state reached by upsert_word, delete_word and update_order
\* calls, no two stored entries have both the same term and the same pos
\* (in the connection's view and in the file).
C1_KeyUnique == KeyUnique(Stored) /\ KeyUnique(disk.dictionary.rows)

\* An upsert_word has created a second entry of an already stored term.
C1_Witness ==
    /\ last.op = "upsert_word" /\ last.ret = "created"
    /\ view.dictionary.key = "term_pos"
    /\ \E r1, r2 \in Stored : r1.term = r2.term /\ r1.pos # r2.pos

\* C2: upsert_word with a key that matches no stored entry returns
\* 'created' and adds exactly one entry, with sort_order 1 in an empty store
\* and max + 1 otherwise and with an id no other entry holds; every entry
\* stored before is unchanged.
C2_UpsertCreates ==
    [][\A data \in Candidates :
        (upsert_word(data, FALSE) /\ ~HasKey(Stored, data.term, data.pos)) =>
            /\ last'.ret = "created"
            /\ \E r \in StoredAfter :
                /\ StoredAfter = Stored \cup {r}
                /\ r \notin Stored
                /\ r = MkRow(r.id, data,
                        IF Stored = {} THEN 1
                        ELSE SetMax({q.sort_order : q \in Stored}) + 1)
                /\ \A q \in Stored : q.id # r.id]_vars

\* C3: upsert_word with a key that matches a stored entry returns 'updated',
\* overwrites that entry's pronunciation, meaning and example and nothing
\* else; with a candidate equal to the stored entry the store is unchanged.
C3_UpsertUpdates ==
    [][\A data \in Candidates :
        (upsert_word(data, FALSE) /\ HasKey(Stored, data.term, data.pos)) =>
            /\ last'.ret = "updated"
            /\ StoredAfter =
                 { IF r.term = data.term /\ r.pos = data.pos
                     THEN MkRow(r.id, data, r.sort_order) ELSE r : r \in Stored }
            /\ Cardinality(StoredAfter) = Cardinality(Stored)
            /\ view'.dictionary.seq = view.dictionary.seq
            /\ (\E r \in Stored : r = MkRow(r.id, data, r.sort_order)) =>
                   view' = view]_vars

\* An upsert_word has updated an entry while another entry is stored.
C3_Witness ==
    /\ last.op = "upsert_word" /\ last.ret = "updated"
    /\ Cardinality(Stored) >= 2
    /\ \E r \in Stored : r.meaning = P2.meaning

\* C4: after DatabaseManager(path) returned on a file whose dictionary table
\* was created with UNIQUE(term), upsert_word of a stored term with another
\* pos returns 'created' and get_all_words lists both entries.
C4_LegacyKeyMigrated ==
    [][\A data \in Candidates :
        (/\ upsert_word(data, FALSE)
         /\ \E r \in Stored : r.term = data.term
         /\ ~HasKey(Stored, data.term, data.pos)) =>
            /\ last'.ret = "created"
            /\ \E r1, r2 \in StoredAfter :
                  r1.term = data.term /\ r2.term = data.term /\ r1.pos # r2.pos]_vars

\* C8: a call in which a statement fails changes neither the persisted
\* state nor what a later get_all_words lists.
C8_FailedCallAtomic ==
    [][last'.fault => (disk' = disk /\ view' = view)]_vars

\* C9: no two stored entries have the same sort_order.
C9_OrderUnique ==
    \A r1, r2 \in disk.dictionary.rows :
        r1.sort_order = r2.sort_order => r1 = r2

\* C10: delete_word(term, pos) removes the entry with that key and leaves
\* every other entry as it was; with no such entry it returns normally and
\* the store is unchanged.
C10_DeleteFrame ==
    [][\A t \in Terms, p \in PosSet :
        delete_word(t, p, FALSE) =>
            /\ last'.ret = "None"
            /\ StoredAfter = {r \in Stored : ~(r.term = t /\ r.pos = p)}
            /\ view'.dictionary.seq = view.dictionary.seq
            /\ ~HasKey(Stored, t, p) => view' = view]_vars

\* A delete_word has returned in a store that handed out two ids and holds
\* one entry.
C10_Witness ==
    /\ last.op = "delete_word" /\ last.ret = "None"
    /\ view.dictionary.seq = 2
    /\ Cardinality(Stored) = 1

C12_IdStableNeverReused ==
    [][/\ \A r \in Stored, q \in StoredAfter :
            (r.term = q.term /\ r.pos = q.pos) => q.id = r.id
       /\ view'.dictionary.seq >= view.dictionary.seq
       /\ \A q \in StoredAfter :
            /\ q.id <= view'.dictionary.seq
            /\ (\A r \in Stored : r.id # q.id) => q.id > view.dictionary.seq]_vars

\* An entry has been created after the entry with id 1 was deleted; it is
\* the only entry and its id is 2.
C12_Witness ==
    /\ last.op = "upsert_word" /\ last.ret = "created"
    /\ Cardinality(Stored) = 1
    /\ \A r \in Stored : r.id = 2

\* C13: after update_order(A.id, b, B.id, a) on two stored entries A and B
\* with sort_order a and b, the call update_order(A.id, a, B.id, b) gives
\* every stored entry the sort_order (and every other field) it had before
\* the first call.
C13_SwapSelfInverse ==
    [][\A A, B \in Stored :
        (A # B /\ update_order(A.id, B.sort_order, B.id, A.sort_order, 0)) =>
            UpdateOrderById(
                UpdateOrderById(view'.dictionary, A.sort_order, A.id),
                B.sort_order, B.id) = view.dictionary]_vars

\* update_order has exchanged the sort_order values of two stored entries.
C13_Witness ==
    /\ last.op = "update_order" /\ last.ret = "None"
    /\ \E r1, r2 \in Stored :
          r1.id < r2.id /\ r2.sort_order < r1.sort_order

(***************************************************************************)
(* Properties of the list filter, read in the state in which the filter    *)
(* has been applied: fn.in holds its arguments and fn.out its result.      *)
(***************************************************************************)
Filtered == fn.op = "filter"

\* The characters of w from position i + 1 to position j.
Piece(w, i, j) == [k \in 1..(j - i) |-> w[i + k]]

\* w contains q, starts with q, ends with q.
Occurs(w, q, mode) ==
    \E i, j \in 0..Len(w) :
        /\ i <= j
        /\ Piece(w, i, j) = q
        /\ mode = "startswith" => i = 0
        /\ mode = "endswith" => j = Len(w)

\* The k-th smallest element of a set of indices.
Kth(I, k) == CHOOSE i \in I : Cardinality({j \in I : j <= i}) = k

\* C14: the filter returns exactly the entries whose lower-cased term
\* contains, starts with or ends with (by mode) the lower-cased query, in
\* the order of the full list; only term is looked at; an empty query
\* returns the full list in every mode.
C14_FilterExact ==
    Filtered =>
        LET items == fn.in.items
            I == {i \in DOMAIN items :
                    Occurs(Lower(Text(items[i].term)), Lower(Text(fn.in.query)),
                           fn.in.mode)}
        IN /\ Len(fn.out) = Cardinality(I)
           /\ \A k \in DOMAIN fn.out : fn.out[k] = items[Kth(I, k)]
           /\ fn.in.query = "" => fn.out = items

\* In mode startswith the filter kept the second of two entries and dropped
\* the first, whose term contains the query without starting with it.
C14_Witness ==
    /\ Filtered
    /\ fn.in.mode = "startswith"
    /\ Len(fn.in.items) = 2
    /\ fn.in.query = "A"
    /\ fn.in.items[1].term = "ba"
    /\ fn.out = <<fn.in.items[2]>>

\* Two characters that are equal or the two cases of one letter.
SameLetter(c1, c2) == c1 = c2 \/ {c1, c2} = {"a", "A"}

\* Two strings that differ in letter case only.
SameButCase(s1, s2) ==
    /\ Len(Text(s1)) = Len(Text(s2))
    /\ \A i \in DOMAIN Text(s1) : SameLetter(Text(s1)[i], Text(s2)[i])

\* C15: a query that differs from the one given in letter case only gives
\* the same result, and an entry matches exactly when it would match with
\* its term's letters in any other case.
C15_CaseInsensitive ==
    Filtered =>
        LET items == fn.in.items IN
        /\ \A q2 \in Strs :
              SameButCase(q2, fn.in.query) =>
                  Filter(items, q2, fn.in.mode) = fn.out
        /\ \A i \in DOMAIN items : \A t2 \in Strs :
              SameButCase(t2, items[i].term) =>
                  (ItemMatches([items[i] EXCEPT !.term = t2], fn.in.query,
                               fn.in.mode)
                   <=> \E k \in DOMAIN fn.out : fn.out[k] = items[i])

\* An upper-case query has matched a lower-case term and a mixed-case term.
C15_Witness ==
    /\ Filtered
    /\ fn.in.query = "A"
    /\ Len(fn.out) = 2
    /\ fn.out[1].term = "ab"
    /\ fn.out[2].term = "bA"

(***************************************************************************)
(* Properties of the link scanner, read in the state in which it has been  *)
(* applied: fn.in is the text and fn.out the sequence of inserted spans.   *)
(***************************************************************************)
Extracted == fn.op = "links"

\* The piece of the text a span was made from.
SpanSource(sp) ==
    IF sp.kind = "link" THEN <<"[">> \o sp.text \o <<"]">> ELSE sp.text

RECURSIVE Rebuild(_)
Rebuild(spans) ==
    IF spans = <<>> THEN <<>> ELSE SpanSource(Head(spans)) \o Rebuild(Tail(spans))

\* The position in the text of the character before span number n.
SpanOffset(spans, n) == Len(Rebuild(SubSeq(spans, 1, n - 1)))

\* The positions of the "]" after position i.
ClosesAfter(c, i) == {j \in (i + 1)..Len(c) : c[j] = "]"}

ExampleSpans ==
    <<PlainSpan(<<"S", "e", "e", " ">>), LinkSpan(<<"c", "a", "t">>),
      PlainSpan(<<" ", "a", "n", "d", " ">>), LinkSpan(<<"d", "o", "g">>),
      PlainSpan(<<".">>)>>

\* C16: the spans, put back together with each link word in its brackets,
\* are the text; a link word contains no "]"; every "[" that is followed
\* somewhere by a "]" starts a link or lies inside a link word, so that
\* each bracketed run met scanning left to right is one link; and the
\* text 'See [cat] and [dog].' gives 'See ', cat, ' and ', dog, '.'.
C16_LinksExact ==
    Extracted =>
        /\ Rebuild(fn.out) = fn.in
        /\ \A n \in DOMAIN fn.out :
              /\ fn.out[n].kind = "link" =>
                    \A k \in DOMAIN fn.out[n].text : fn.out[n].text[k] # "]"
              /\ fn.out[n].kind = "plain" =>
                    \A k \in DOMAIN fn.out[n].text :
                        fn.out[n].text[k] = "[" =>
                            ClosesAfter(fn.in, SpanOffset(fn.out, n) + k) = {}
        /\ fn.in = ExampleText => fn.out = ExampleSpans

\* C16, amended: as C16, with a link word that contains neither "]" nor a
\* line break: a "[" outside the links is followed by no "]", or a line
\* break lies between it and the next "]".
C16_LinksExactOnLine ==
    Extracted =>
        /\ Rebuild(fn.out) = fn.in
        /\ \A n \in DOMAIN fn.out :
              /\ fn.out[n].kind = "link" =>
                    \A k \in DOMAIN fn.out[n].text :
                        fn.out[n].text[k] # "]" /\ fn.out[n].text[k] # "\n"
              /\ fn.out[n].kind = "plain" =>
                    \A k \in DOMAIN fn.out[n].text :
                        fn.out[n].text[k] = "[" =>
                            LET i == SpanOffset(fn.out, n) + k
                                J == ClosesAfter(fn.in, i)
                            IN \/ J = {}
                               \/ \E m \in (i + 1)..SetMin(J) : fn.in[m] = "\n"
        /\ fn.in = ExampleText => fn.out = ExampleSpans

\* The scanner has made two links of a text, the first with a "[" in its
\* link word.
C16_Witness ==
    /\ Extracted
    /\ fn.in = <<"[", "[", "]", "[", "]">>
    /\ fn.out = <<PlainSpan(<<>>), LinkSpan(<<"[">>), PlainSpan(<<>>),
                  LinkSpan(<<>>), PlainSpan(<<>>)>>

(***************************************************************************)
(* Properties of the v6 window.  They read one step of the window: the     *)
(* unprimed variables are the state in which the handler is called, the    *)
(* primed ones the state in which it returns.                              *)
(***************************************************************************)

\* The entries of the listing s whose lower-cased term contains the
\* lower-cased word.
Containing(s, word) ==
    {i \in DOMAIN s : Occurs(Lower(Text(s[i].term)), Lower(Text(word)), "contains")}

C18_LinkNotFoundNotice ==
    [][\A w \in Queries :
          (jump_to_word_filter(w) /\ ui'.display = <<>>) =>
              /\ ui'.note.text = "Link not found"
              /\ ui'.sel = 0]_vars

\* The term of a record as C19 resolves it: term, or word when term is
\* absent or empty.
ResolvedTerm(item) ==
    IF "term" \in DOMAIN item /\ item["term"] # ""
    THEN item["term"]
    ELSE Get(item, "word", "")

\* The candidate of a record as C19 resolves it.
ResolvedCandidate(item) ==
    [term |-> ResolvedTerm(item),
     pronunciation |-> Get(item, "pronunciation", ""),
     pos |-> IF "part_of_speech" \in DOMAIN item THEN item["part_of_speech"]
             ELSE Get(item, "pos", ""),
     meaning |-> IF "definition" \in DOMAIN item THEN item["definition"]
                 ELSE Get(item, "meaning", ""),
     example |-> Get(item, "example", "")]

\* The records of items that C19 accepts, in their order.
Accepted(items) == SelectSeq(items, LAMBDA item : ResolvedTerm(item) # "")

\* C19: in an import that ends without an error, the candidates handed to
\* upsert_word are those resolved from the records whose resolved term is
\* not empty, one for each such record and in their order, and the count
\* written to the log is the number of these records.
C19_ImportAliases ==
    [][\A content \in ArrayContents :
          (import_json_logic(content) /\ last'.ret = "Imported") =>
              LET acc == Accepted(content.items) IN
              /\ ImportRun(view.dictionary, content).handed =
                    [i \in DOMAIN acc |-> ResolvedCandidate(acc[i])]
              /\ ui'.note = Note("Imported", Len(acc))]_vars

\* The records of a file as C20 reads them: the records of an array, and
\* for an object each value with its key as term.
RecordsOf(content) ==
    IF content.shape = "array"
    THEN content.items
    ELSE [i \in DOMAIN content.items |->
             WithTerm(content.items[i].value, content.items[i].key)]

\* C20: after import_json_logic, for a file of either shape, every record
\* of the file whose term is not empty is in the store under its term and
\* pos, object-form records whose value carries a term field included.
C20_BothShapesImported ==
    [][\A content \in ImportContents :
          import_json_logic(content) =>
              \A i \in DOMAIN content.items :
                  LET item == RecordsOf(content)[i] IN
                  ImportTerm(item) # "" =>
                      HasKey(view'.dictionary.rows, ImportTerm(item),
                             ImportCandidate(item).pos)]_vars

(***************************************************************************)
(* Properties of the steps of the v5 migration.                            *)
(***************************************************************************)

\* migrate_db is running, or has just returned.
InMigration ==
    pc \in {"m_rename", "m_create", "m_copy", "m_drop", "m_commit"} \/ Opened

\* The DROP of this run has been executed and is not yet committed.
DropRan ==
    /\ pc = "m_commit"
    /\ disk.dictionary_old.key # "none"
    /\ view.dictionary_old.key = "none"

\* C24 as stated: there is no state in which dictionary_old has been
\* dropped while the rows copied from it are still uncommitted.
C24_DropAfterCommit == DropRan => view.dictionary = disk.dictionary

\* C24: the DROP is executed only after the copy statement has succeeded,
\* inside the transaction the copy opened, and the two are committed
\* together: in no committed content has dictionary_old gone while the
\* rows found by the Open are missing from dictionary.
C24_DropCommittedWithCopy ==
    /\ DropRan =>
          /\ failed = "none"
          /\ view.dictionary = CopyRows(disk.dictionary, disk.dictionary_old)
    /\ (InMigration /\ pre.dictionary_old.key = "none"
                    /\ disk.dictionary_old.key = "none") =>
          Listing(disk.dictionary) = Listing(pre.dictionary)

\* The DROP has run on a table with rows: the copy is in the connection's
\* transaction and the committed file still holds dictionary_old.
C24_Witness ==
    /\ DropRan
    /\ disk.dictionary_old.rows # {}
    /\ disk.dictionary.rows = {}
    /\ view.dictionary.rows # {}

\* The five fields of a row.
Fields(r) == <<r.term, r.pronunciation, r.pos, r.meaning, r.example>>

\* C25: when the process has stopped inside migrate_db and the store has
\* been opened again, every row stored before the first Open is returned
\* by get_all_words.
C25_CrashKeepsRows ==
    (Opened /\ origin.crashed) =>
        \A r \in origin.file.dictionary.rows :
            \A s \in get_all_words(disk.dictionary) :
                \E i \in DOMAIN s : Fields(s[i]) = Fields(r)

(***************************************************************************)
(* Properties of the v5 settings accessors.                                *)
(***************************************************************************)

\* The value of key k in the settings table t, d when k has no row.
Got(t, k, d) == IF t[k] \in SettingValues THEN t[k] ELSE d

\* C22: before any set_setting, get_setting returns its default; a step of
\* set_setting(k, v) makes get_setting(k, .) return v, is the same applied
\* twice as once, and changes neither what get_setting returns for another
\* key nor the dictionary; every other step changes nothing that
\* get_setting returns; get_setting returns what the table holds.
C22_SettingsLastWriteWins ==
    /\ \A k \in SettingKeys, d \in SettingValues : Got(settings, k, d) = d
    /\ [][/\ \A k \in SettingKeys, v \in SettingValues :
               set_setting(k, v) =>
                   /\ \A d \in SettingValues : Got(settings', k, d) = v
                   /\ InsertOrReplace(settings', k, v) = settings'
                   /\ \A k2 \in SettingKeys \ {k}, d \in SettingValues :
                         Got(settings', k2, d) = Got(settings, k2, d)
                   /\ disk' = disk /\ view' = view
          /\ (~ \E k \in SettingKeys, v \in SettingValues : set_setting(k, v)) =>
                \A k \in SettingKeys, d \in SettingValues :
                    Got(settings', k, d) = Got(settings, k, d)
          /\ \A k \in SettingKeys, d \in SettingValues :
                get_setting(k, d) => fn'.out = <<Got(settings, k, d)>>]_vars

\* theme was set to Dark and then to Light, splash_style never: the store
\* holds an entry, and get_setting("theme", "Dark") has returned Light.
C22_Witness ==
    /\ fn = [op |-> "get_setting", in |-> <<"theme", "Dark">>, out |-> <<"Light">>]
    /\ settings["splash_style"] = "unset"
    /\ disk.dictionary.rows # {}

(***************************************************************************)
(* Properties of the v6 store's connection.                                *)
(***************************************************************************)

\* C26: when a store operation has returned, normally or by exception, the
\* connection it used is closed.
C26_NoHandleHeld ==
    last.op \in {"upsert_word", "delete_word", "update_order"} => pc = "closed"

(***************************************************************************)
(* Properties of the handlers of the v6 window.                            *)
(***************************************************************************)

\* The position of the first member of an array file that is not an
\* object, the record at which the import loop raises; 0 when there is none.
FailAt(content) ==
    IF content.shape = "array" /\ \E i \in DOMAIN content.items : ~IsDict(content.items[i])
    THEN CHOOSE i \in DOMAIN content.items :
            /\ ~IsDict(content.items[i])
            /\ \A j \in 1..(i - 1) : IsDict(content.items[j])
    ELSE 0

\* C21: when import_json_logic fails at the k-th record of the file, the
\* entries upserted for the records before it are in the persisted store,
\* each with the fields of the last record of its term and pos, the pending
\* state is the persisted one, the failure is written to the log as the one
\* line "Import Error", and the handler returns with the store open.
C21_PartialImportKept ==
    [][\A content \in WinContents :
          (FailAt(content) > 0 /\ import_json_logic(content)) =>
              LET before == SubSeq(content.items, 1, FailAt(content) - 1)
                  kept == {i \in DOMAIN before :
                             /\ ImportTerm(before[i]) # ""
                             /\ \A j \in DOMAIN before :
                                   (/\ j > i
                                    /\ ImportTerm(before[j]) = ImportTerm(before[i])
                                    /\ ImportCandidate(before[j]).pos =
                                          ImportCandidate(before[i]).pos) => FALSE}
              IN /\ \A i \in kept :
                       \E r \in disk'.dictionary.rows :
                           Fields(r) = Fields(ImportCandidate(before[i]))
                 /\ kept # {} => view' = disk'
                 /\ \A r \in disk.dictionary.rows :
                       \E r2 \in disk'.dictionary.rows : r2.id = r.id
                 /\ ui'.note = Note("Import Error", 0)
                 /\ last'.ret = "Import Error"
                 /\ pc' = "open"]_vars

\* An import has ended with "Import Error" and the entry Ab of the record
\* before the failing one is in the persisted store, while the list, not
\* refreshed, does not show it.
C21_Witness ==
    /\ last.op = "import_json_logic"
    /\ last.ret = "Import Error"
    /\ ui.note = Note("Import Error", 0)
    /\ \E r \in disk.dictionary.rows : r.term = "Ab" /\ r.meaning = "m1"
    /\ \A i \in DOMAIN ui.display : ui.display[i].term # "Ab"

\* C23: every stored entry has a pos of PART_OF_SPEECH_LIST.
C23_PosInList ==
    \A r \in view.dictionary.rows : r.pos \in PosSet

\* _move(d) has something to exchange: the search box is empty and the
\* selected line and its neighbour are lines of the list.
MoveApplies(d) ==
    /\ ui.search = ""
    /\ ui.sel \in DOMAIN ui.display
    /\ ui.sel + d \in DOMAIN ui.display

\* The listing s with the entries at i and j transposed, their sort_order
\* values exchanged and nothing else changed.
Transposed(s, i, j) ==
    [n \in DOMAIN s |->
        IF n = i THEN [s[j] EXCEPT !.sort_order = s[i].sort_order]
        ELSE IF n = j THEN [s[i] EXCEPT !.sort_order = s[j].sort_order]
        ELSE s[n]]

\* C27: a _move(d) that returns normally, when it has something to
\* exchange, makes get_all_words the previous listing with the selected
\* entry and its neighbour transposed, and otherwise leaves the store
\* unchanged.
C27_MoveTransposes ==
    [][\A d \in {-1, 1} :
          move(d, 0) =>
              IF MoveApplies(d)
              THEN \A s \in get_all_words(view.dictionary) :
                     \E i \in DOMAIN s :
                        /\ i + d \in DOMAIN s
                        /\ s[i].id = ui.display[ui.sel].id
                        /\ s[i + d].id = ui.display[ui.sel + d].id
                        /\ get_all_words(view'.dictionary) = {Transposed(s, i, i + d)}
                        /\ disk' = view'
              ELSE view' = view /\ disk' = disk]_vars

\* The listing s filtered by the text q and the mode.
Shown(s, q, mode) ==
    LET I == {i \in DOMAIN s : Occurs(Lower(Text(s[i].term)), Lower(Text(q)), mode)}
    IN [k \in 1..Cardinality(I) |-> s[Kth(I, k)]]

\* The list shows the current listing filtered by the text of the search
\* box and the search mode.
ListIsCurrent ==
    \A s \in get_all_words(view.dictionary) :
        ui.display = Shown(s, ui.search, ui.mode)

\* A step of one of the handlers of C28 that returns normally.
HandlerReturns ==
    \/ \E data \in WinEntries : save_entry(data, FALSE)
    \/ \E r \in view.dictionary.rows : delete_entry(r.term, r.pos, FALSE)
    \/ \E content \in WinContents : import_json_logic(content)
    \/ \E d \in {-1, 1} : move(d, 0)
    \/ \E p \in Paths : switch_db(p, FALSE)
    \/ \E q \in WinQueries : on_search(q)
    \/ clear_search
    \/ \E w \in WinQueries : jump_to_word_filter(w)

\* C28: after save_entry, delete_entry, import_json_logic, _move,
\* switch_db, on_search, clear_search and jump_to_word_filter the list
\* shows the current listing filtered by the current text of the search
\* box and the current mode.
C28_ListFollowsStore ==
    [][HandlerReturns => ListIsCurrent']_vars

\* C29: when the new store cannot be opened in switch_db, db_manager is
\* still the previous store with its connection open, and last_db_path and
\* the store's path are what they were.
C29_FailedSwitchKeepsStore ==
    [][\A p \in Paths :
          switch_db(p, TRUE) =>
              /\ pc' = "open"
              /\ view' = view
              /\ disk' = disk
              /\ sys' = sys]_vars

(***************************************************************************)
(* Properties of export followed by import.                                *)
(***************************************************************************)

\* C30: import_json_logic on the file written by do_export_json, run on an
\* empty store, makes get_all_words return entries with the fields term,
\* pronunciation, pos, meaning and example of the exported entries, one for
\* each and in the order of the export, and persists them.
C30_ExportImportRoundTrip ==
    [][(ImportExported /\ view.dictionary.rows = {}) =>
          /\ \A s \in get_all_words(view'.dictionary) :
                /\ Len(s) = Len(fn.out)
                /\ \A i \in DOMAIN s : Fields(s[i]) = Fields(fn.out[i])
          /\ disk' = view'
          /\ last'.ret = "Imported"]_vars

\* Two entries exported in an order that is not the order of their ids
\* have been imported into other.db, where the first of the listing has
\* id 1 and the fields of the first exported entry.
C30_Witness ==
    /\ last.op = "import_json_logic"
    /\ last.ret = "Imported"
    /\ sys.db_path = "other.db"
    /\ fn.op = "export"
    /\ Len(fn.out) = 2
    /\ fn.out[1].id = 2
    /\ \E s \in get_all_words(view.dictionary) :
          /\ Len(s) = 2
          /\ s[1].id = 1
          /\ Fields(s[1]) = Fields(fn.out[1])
          /\ Fields(s[2]) = Fields(fn.out[2])

====
